---- MODULE Spec2Model ----
(***************************************************************************)
(* Model of the ASET DevOps repair loop (DevOpsEngineerAgent.run and its   *)
(* helpers) and of the file bundle codec (parse_file_bundle,               *)
(* write_file_bundle).                                                     *)
(*                                                                         *)
(* Strings that the code inspects character by character (bundle paths)    *)
(* are sequences of tokens: "/" and "\\" are the separators, every other   *)
(* token is a piece of a file name.  A text is a sequence of lines; a line *)
(* is a record saying which of the two marker patterns it matches.         *)
(* A file system is a function from absolute resolved paths (sequences of  *)
(* segment strings) to file contents.                                      *)
(***************************************************************************)
EXTENDS Integers, Sequences, FiniteSets, TLC

VARIABLES
    cfg,        \* DevOpsRepairConfig given at construction
    pc,         \* position of run: "loop", "install", "check", "repair", "done", "raised"
    iteration,  \* loop variable of run (0 before the first iteration)
    phase,      \* phase argument of the pending _attempt_repair call
    logs,       \* logs argument of the pending _attempt_repair call
    venv,       \* state of backend/.venv: "absent", "broken", "ready"
    disk,       \* files below the project root: absolute path -> content
    devops,     \* files of project_state/devops: artifact name -> content
    trace,      \* history: the calls run has made, in order
    bundle,     \* codec harness: the FileBundle under test (ordered path -> content)
    out_dir,    \* codec harness: the out_dir argument of write_file_bundle
    parse_text, \* codec harness: the text argument of parse_file_bundle (its lines)
    result,     \* codec harness: what the last codec call returned
    upstream,   \* what exists when the controller is constructed: prompt.md and
                \* the documents of the earlier pipeline stages
    running,    \* the child processes started by run_cmd that have not exited
    captured,   \* the commands of the current phase that have ended, with outcomes
    who,        \* the controller instance that is running: 1, or 2 when a second
                \* instance was started on the same project root
    peer,       \* cfg, pc, iteration, phase and logs of the other instance
    router,     \* an LLMRouter and the call of LLMRouter.call in progress
    coder       \* the call of LogicCoderAgent.generate_robust_code in progress

vars == <<cfg, pc, iteration, phase, logs, venv, disk, devops, trace,
          bundle, out_dir, parse_text, result, upstream, running, captured, who, peer, router, coder>>

loopVars == <<cfg, pc, iteration, phase, logs, venv, devops, trace>>
codecVars == <<bundle, out_dir, parse_text, result>>
extVars == <<upstream, running, captured, who, peer, router, coder>>

----------------------------------------------------------------------------
(* Bounds *)

MaxIter == 2        \* largest max_iterations explored
MaxPathLen == 3     \* longest bundle path, in tokens
MaxEntries == 2     \* most entries of a bundle handed to write_file_bundle
MaxLines == 5       \* most lines of a text handed to parse_file_bundle
MaxBundleTokens == 4 \* most path tokens of one bundle, all entries together
MaxProviders == 2   \* most providers configured for one role of the LLMRouter

----------------------------------------------------------------------------
(* Paths *)

Sep == "/"
AltSep == "\\"
\* ".." stands for the two dots of a parent segment, "a" for a letter
PathTokens == {Sep, AltSep, "..", "a"}

RECURSIVE SeqsUpTo(_, _)
SeqsUpTo(S, n) ==
    IF n = 0 THEN {<<>>}
    ELSE LET shorter == SeqsUpTo(S, n - 1)
         IN  shorter \cup {Append(s, t) : s \in {u \in shorter : Len(u) = n - 1}, t \in S}

\* str.lstrip("/")
RECURSIVE LStripSep(_)
LStripSep(p) ==
    IF p # <<>> /\ Head(p) = Sep THEN LStripSep(Tail(p)) ELSE p

\* str.replace("\\", "/")
ReplaceAltSep(p) == [i \in 1..Len(p) |-> IF p[i] = AltSep THEN Sep ELSE p[i]]

\* the normalisation of write_file_bundle: lstrip first, then replace
NormalizeRelPath(p) == ReplaceAltSep(LStripSep(p))

\* a path string is absolute when it starts with the separator
IsAbsolute(p) == p # <<>> /\ Head(p) = Sep

\* the segments of a path string: split at "/", adjacent name tokens joined
RECURSIVE SplitSegs(_, _, _)
SplitSegs(p, cur, acc) ==
    IF p = <<>> THEN (IF cur = "" THEN acc ELSE Append(acc, cur))
    ELSE IF Head(p) = Sep
         THEN SplitSegs(Tail(p), "", IF cur = "" THEN acc ELSE Append(acc, cur))
         ELSE SplitSegs(Tail(p), cur \o Head(p), acc)

\* pathlib drops empty and "." segments when it parses a path
PathParts(p) == SelectSeq(SplitSegs(p, "", <<>>), LAMBDA s : s # ".")

\* out_dir / rel_path: an absolute right operand replaces the left one
JoinPath(dir, p) == IF IsAbsolute(p) THEN PathParts(p) ELSE dir \o PathParts(p)

\* what the operating system makes of ".." segments when the file is opened
RECURSIVE Resolve(_, _)
Resolve(parts, acc) ==
    IF parts = <<>> THEN acc
    ELSE IF Head(parts) = ".."
         THEN Resolve(Tail(parts), IF acc = <<>> THEN acc ELSE SubSeq(acc, 1, Len(acc) - 1))
         ELSE Resolve(Tail(parts), Append(acc, Head(parts)))

IsPrefix(a, b) == Len(a) <= Len(b) /\ SubSeq(b, 1, Len(a)) = a
IsProperPrefix(a, b) == Len(a) < Len(b) /\ SubSeq(b, 1, Len(a)) = a

\* directories are implicit: the root, every ancestor of a file, and keep
IsDir(d, keep, t) ==
    \/ t = <<>>
    \/ t \in keep
    \/ \E q \in (DOMAIN d) \cup keep : IsProperPrefix(t, q)

HasFileAncestor(d, t) == \E q \in DOMAIN d : IsProperPrefix(q, t)

\* a ".." segment that follows a regular file cannot be resolved
TraversesFile(d, parts) ==
    \E i \in 1..Len(parts) :
        parts[i] = ".." /\ Resolve(SubSeq(parts, 1, i - 1), <<>>) \in DOMAIN d

\* write_text opens the file with mode "w": the old content is replaced
MutFsPut(d, t, c) ==
    [q \in (DOMAIN d) \cup {t} |-> IF q = t THEN (IF t \in DOMAIN d THEN d[t] \o c ELSE c) ELSE d[q]]
MutKeepFsPut(d, t, c) == [q \in (DOMAIN d) \cup {t} |-> IF q \in DOMAIN d THEN d[q] ELSE c]
FsPut(d, t, c) == [q \in (DOMAIN d) \cup {t} |-> IF q = t THEN c ELSE d[q]]

----------------------------------------------------------------------------
(* File bundle codec: src/aset/utils/file_bundle.py *)

\* A line of the text handed to parse_file_bundle.  k says which pattern the
\* line matches (FILE_START_RE is tried first, then FILE_END_RE); p is
\* group(1).strip() of the match; s is the line itself for any other line.
StartLine(p) == [k |-> "start", p |-> p, s |-> <<>>]
EndLine(p) == [k |-> "end", p |-> p, s |-> <<>>]
TextLine(s) == [k |-> "text", p |-> <<>>, s |-> s]

Whitespace == {" ", "\n"}

\* "\n".join(buf)
RECURSIVE JoinLines(_)
JoinLines(buf) ==
    IF buf = <<>> THEN <<>>
    ELSE IF Len(buf) = 1 THEN buf[1]
    ELSE buf[1] \o <<"\n">> \o JoinLines(Tail(buf))

\* str.rstrip()
RECURSIVE RStrip(_)
RStrip(s) ==
    IF s # <<>> /\ s[Len(s)] \in Whitespace THEN RStrip(SubSeq(s, 1, Len(s) - 1)) ELSE s

\* "\n".join(buf).rstrip() + "\n"
MutJoinedContent(buf) == Append(JoinLines(buf), "\n")
JoinedContent(buf) == Append(RStrip(JoinLines(buf)), "\n")

\* dict assignment files[path] = value: a new key goes last, an existing key
\* keeps its position
MutDictSet(files, path, value) == Append(files, [path |-> path, content |-> value])
MutKeepFirstDictSet(files, path, value) ==
    IF \E i \in 1..Len(files) : files[i].path = path THEN files
    ELSE Append(files, [path |-> path, content |-> value])
DictSet(files, path, value) ==
    IF \E i \in 1..Len(files) : files[i].path = path
    THEN [i \in 1..Len(files) |->
            IF files[i].path = path THEN [path |-> path, content |-> value] ELSE files[i]]
    ELSE Append(files, [path |-> path, content |-> value])

ParseFail(err) == [ok |-> FALSE, err |-> err, files |-> <<>>]

\* the conditions under which parse_file_bundle raises FileBundleParseError
MutRaisesNested(open) == FALSE
RaisesNested(open) == open                                  \* line 55
RaisesOrphanEnd(open) == ~open                              \* line 64
MutRaisesMismatch(end_path, current_path) == FALSE
RaisesMismatch(end_path, current_path) == end_path # current_path   \* line 66
RaisesUnclosed(open) == open                                \* line 76
MutRaisesNoFiles(files) == FALSE
RaisesNoFiles(files) == files = <<>>                        \* line 79

\* current_buf after one line: emptied by a start marker (line 58) and by
\* flush_current (line 50); any other line is appended while a block is open
\* (lines 73-74) and dropped otherwise
MutNextBuf(line, open, buf) ==
    IF line.k = "start" THEN buf
    ELSE IF line.k = "end" THEN <<>>
    ELSE Append(buf, line.s)
NextBuf(line, open, buf) ==
    IF line.k \in {"start", "end"} THEN <<>>
    ELSE IF open THEN Append(buf, line.s) ELSE buf

\* the for loop of parse_file_bundle and the checks after it; open says that
\* current_path is not None
RECURSIVE ParseLoop(_, _, _, _, _)
ParseLoop(lines, files, open, current_path, current_buf) ==
    IF lines = <<>>
    THEN IF RaisesUnclosed(open) THEN ParseFail("Unclosed FILE_START")
         ELSE IF RaisesNoFiles(files) THEN ParseFail("No files found")
         ELSE [ok |-> TRUE, err |-> "",
               files |-> [i \in 1..Len(files) |->
                            [path |-> files[i].path,
                             content |-> JoinedContent(files[i].content)]]]
    ELSE LET line == Head(lines)
             rest == Tail(lines)
         IN  IF line.k = "start"
             THEN IF RaisesNested(open) THEN ParseFail("Nested FILE_START")
                  ELSE ParseLoop(rest, files, TRUE, line.p, NextBuf(line, open, current_buf))
             ELSE IF line.k = "end"
             THEN IF RaisesOrphanEnd(open) THEN ParseFail("FILE_END without FILE_START")
                  ELSE IF RaisesMismatch(line.p, current_path) THEN ParseFail("Mismatched FILE_END")
                  ELSE ParseLoop(rest, DictSet(files, current_path, current_buf),
                                 FALSE, <<>>, NextBuf(line, open, current_buf))
             ELSE ParseLoop(rest, files, open, current_path, NextBuf(line, open, current_buf))

parse_file_bundle(text) == ParseLoop(text, <<>>, FALSE, <<>>, <<>>)

\* target of one bundle entry: out_dir / normalized rel_path
TargetOf(dir, rel_path) == JoinPath(dir, NormalizeRelPath(rel_path))

\* where the file of one bundle entry lands
WriteTarget(dir, rel_path) == Resolve(TargetOf(dir, rel_path), <<>>)

\* the for loop of write_file_bundle.  mkdir or write_text raises when the
\* target is a directory or lies below a regular file; the entries written
\* before stay written.
RECURSIVE WriteLoop(_, _, _, _)
WriteLoop(files, dir, d, written) ==
    IF files = <<>> THEN [disk |-> d, written |-> written, raised |-> FALSE]
    ELSE LET t == WriteTarget(dir, files[1].path)
         IN  IF IsDir(d, {dir}, t) \/ HasFileAncestor(d, t)
                \/ TraversesFile(d, TargetOf(dir, files[1].path))
             THEN [disk |-> d, written |-> written, raised |-> TRUE]
             ELSE WriteLoop(Tail(files), dir, FsPut(d, t, files[1].content),
                            Append(written, TargetOf(dir, files[1].path)))

write_file_bundle(files, dir, d) == WriteLoop(files, dir, d, <<>>)

----------------------------------------------------------------------------
(* Repair loop: src/aset/agents/devops_engineer/agent.py *)

ProjectRoot == <<"proj">>
CodebaseDir == ProjectRoot \o <<"project_state", "codebase">>
BackendRoot == CodebaseDir \o <<"backend">>

ReqFile == <<"requirements.txt">>
RunBackend == <<"run_backend.py">>
AppMain == <<"app", "main.py">>
CheckBackend == <<"check_backend.py">>
Required == <<RunBackend, AppMain, CheckBackend>>
PyFileNames == {"run_backend.py", "main.py", "check_backend.py"}

Exists(d, rel) == (BackendRoot \o rel) \in DOMAIN d

\* names of the files of project_state/devops
Art(kind, ph, n) == [kind |-> kind, ph |-> ph, n |-> n]
MutInstallLog(n) == Art("install", "", 1)
InstallLog(n) == Art("install", "", n)              \* install_<n>.log
ChecksLog(n) == Art("checks", "", n)                \* checks_<n>.log
PatchError(ph, n) == Art("patch_error", ph, n)      \* patch_error_<phase>_<n>.log
PatchRaw(ph, n) == Art("patch_raw", ph, n)          \* patch_raw_<phase>_<n>.txt
InvalidPatch(ph, n) == Art("invalid_patch", ph, n)  \* invalid_patch_<phase>_<n>.txt
StatusFile == Art("status", "", 0)                  \* status.txt

\* write_text: create or overwrite
MutWriteText(dv, name, content) ==
    IF name \in DOMAIN dv THEN dv
    ELSE [a \in (DOMAIN dv) \cup {name} |-> IF a = name THEN content ELSE dv[a]]
WriteText(dv, name, content) ==
    [a \in (DOMAIN dv) \cup {name} |-> IF a = name THEN content ELSE dv[a]]

MutStatusSuccess(n) == <<"SUCCESS on iteration", n + 1>>
StatusSuccess(n) == <<"SUCCESS on iteration", n>>
MutStatusFailed(n) == <<"FAILED after", n - 1, "iterations">>
StatusFailed(n) == <<"FAILED after", n, "iterations">>

\* outcome of one subprocess.Popen(...).communicate(): the exit code, or
\* OSError when the executable cannot be started
ExitCodes == {"exit0", "exit1"}
CmdOutcomes == ExitCodes \cup {"oserror"}

\* pip and python of a venv that was created successfully can be started
CmdOutcomesIn(v) == IF v = "ready" THEN ExitCodes ELSE CmdOutcomes

\* return code == 0 after "pip install -r requirements.txt" (agent.py 160-161)
MutPipOk(pipOut) == TRUE
PipOk(pipOut) == pipOut = "exit0"

\* "create venv if needed": if not venv_dir.exists() (agent.py 146-147)
MutNeedsVenv(v) == TRUE
NeedsVenv(v) == v = "absent"

\* _install_dependencies.  venvOut is the outcome of "python -m venv", left
\* what a failed creation leaves behind, pipOut the outcome of "pip install".
\* Returns (ok, log), the new state of .venv, and whether the call raised.
_install_dependencies(d, v, venvOut, left, pipOut) ==
    LET create == NeedsVenv(v)
        lines1 == IF create THEN << <<"$ python -m venv", venvOut>> >> ELSE <<>>
        v1 == IF ~create THEN v ELSE IF venvOut = "exit0" THEN "ready" ELSE left
    IN  IF create /\ venvOut # "exit0"
        THEN [ok |-> FALSE, log |-> lines1, venv |-> v1, raised |-> FALSE]
        ELSE IF Exists(d, ReqFile)
        THEN IF pipOut = "oserror"
             THEN [ok |-> FALSE, log |-> lines1, venv |-> v1, raised |-> TRUE]
             ELSE [ok |-> PipOk(pipOut),
                   log |-> Append(lines1, <<"$ pip install -r", pipOut>>),
                   venv |-> v1, raised |-> FALSE]
        ELSE [ok |-> TRUE,
              log |-> Append(lines1, <<"No requirements.txt found; skipping pip install.">>),
              venv |-> v1, raised |-> FALSE]

\* backend_root.rglob("*.py"): .venv lies below backend_root and a complete
\* venv holds Python files
HasPyFiles(d, v) ==
    \/ v = "ready"
    \/ \E q \in DOMAIN d : IsProperPrefix(BackendRoot, q) /\ q[Len(q)] \in PyFileNames

MutMissing(d) == <<>>
Missing(d) == SelectSeq(Required, LAMBDA r : ~Exists(d, r))

\* the guard of the import check (agent.py 406-407)
MutDoImport(c, d) == Exists(d, CheckBackend)
DoImport(c, d) == c.run_import_check /\ Exists(d, CheckBackend)

\* _run_backend_checks.  importOut and runOut are the outcomes of the two
\* commands.  Returns (ok, log) and whether the call raised.
_run_backend_checks(d, v, c, importOut, runOut) ==
    IF ~HasPyFiles(d, v)
    THEN [ok |-> FALSE, log |-> << <<"No Python source files found in backend.">> >>,
          raised |-> FALSE]
    ELSE IF Missing(d) # <<>>
    THEN [ok |-> FALSE, log |-> << <<"Missing required files:", Missing(d)>> >>,
          raised |-> FALSE]
    ELSE LET doImport == DoImport(c, d)
             lines1 == IF doImport THEN << <<"$ python check_backend.py", importOut>> >>
                       ELSE <<>>
             ok1 == ~doImport \/ importOut = "exit0"
         IN  IF doImport /\ importOut = "oserror"
             THEN [ok |-> FALSE, log |-> <<>>, raised |-> TRUE]
             ELSE IF c.run_uvicorn_check
             THEN IF runOut = "oserror"
                  THEN [ok |-> FALSE, log |-> lines1, raised |-> TRUE]
                  ELSE [ok |-> ok1 /\ runOut = "exit0",
                        log |-> lines1 \o << <<"=== Running backend startup check ===">>,
                                             <<"$ python run_backend.py --check", runOut>> >>,
                        raised |-> FALSE]
             ELSE [ok |-> ok1, log |-> lines1, raised |-> FALSE]

\* what one call of the Patch Oracle (self._call_llm) does: it raises exc, or
\* it returns text
OracleRaises(exc) == [raises |-> TRUE, exc |-> exc, text |-> <<>>]
OracleReturns(text) == [raises |-> FALSE, exc |-> "", text |-> text]
NoOutcome == [raises |-> FALSE, exc |-> "", text |-> <<>>]

\* the three outcomes of a repair step that the controller tells apart
RepairResult(o) ==
    IF o.raises THEN "call_failed"
    ELSE IF parse_file_bundle(o.text).ok THEN "parsed" ELSE "unparsable"

\* except Exception around the oracle call (agent.py 327-344): write
\* patch_error_<phase>_<n>.log and return
MutEscapeOnOracleError(dv, ph, n, exc) ==
    [devops |-> dv, raised |-> TRUE]
MutOnlyQuotaOnOracleError(dv, ph, n, exc) ==
    IF exc = "quota"
    THEN [devops |-> WriteText(dv, PatchError(ph, n), <<"DevOps LLM call failed", ph, n, exc>>),
          raised |-> FALSE]
    ELSE [devops |-> dv, raised |-> TRUE]
MutRawOnOracleError(dv, ph, n, exc) ==
    [devops |-> WriteText(dv, PatchRaw(ph, n), <<"DevOps LLM call failed", ph, n, exc>>),
     raised |-> FALSE]
OnOracleError(dv, ph, n, exc) ==
    [devops |-> WriteText(dv, PatchError(ph, n), <<"DevOps LLM call failed", ph, n, exc>>),
     raised |-> FALSE]

\* "Always save the raw patch text" (agent.py 346-350): write
\* patch_raw_<phase>_<n>.txt
MutSaveRaw(dv, ph, n, text) ==
    WriteText(WriteText(dv, PatchRaw(ph, n), text), PatchError(ph, n), text)
SaveRaw(dv, ph, n, text) == WriteText(dv, PatchRaw(ph, n), text)

\* except FileBundleParseError (agent.py 355-368): write
\* invalid_patch_<phase>_<n>.txt and return
MutOnParseError(dv, ph, n, text) == dv
OnParseError(dv, ph, n, text) == WriteText(dv, InvalidPatch(ph, n), text)

\* what _attempt_repair does with a bundle that parsed: the function ends
\* right after the try block of parse_file_bundle, nothing is written
MutOnParsed(d, files) == write_file_bundle(files, CodebaseDir, d).disk
OnParsed(d, files) == d

\* _attempt_repair, from the oracle call on.  Returns the devops directory,
\* the disk, and whether the call raised.
_attempt_repair(dv, d, n, ph, o) ==
    IF o.raises
    THEN LET h == OnOracleError(dv, ph, n, o.exc)
         IN  [devops |-> h.devops, disk |-> d, raised |-> h.raised]
    ELSE LET dv1 == SaveRaw(dv, ph, n, o.text)
             b == parse_file_bundle(o.text)
         IN  IF ~b.ok
             THEN [devops |-> OnParseError(dv1, ph, n, o.text), disk |-> d, raised |-> FALSE]
             ELSE [devops |-> dv1, disk |-> OnParsed(d, b.files), raised |-> FALSE]

----------------------------------------------------------------------------
(* The run of DevOpsEngineerAgent.run *)

Event(ev, n, ph, res, out) == [ev |-> ev, n |-> n, ph |-> ph, res |-> res, out |-> out]

\* range(1, max_iterations + 1): the index after i, and whether it is in range
NextIndex(i) == i + 1
MutInRange(i, max) == i <= max + 1
MutDoWhileInRange(i, max) == i = 1 \/ i <= max
InRange(i, max) == i <= max

\* the if after _run_backend_checks (agent.py 104-107)
MutAfterCheck(ok) == "repair"
AfterCheck(ok) == IF ok THEN "done" ELSE "repair"

\* the if after _install_dependencies (agent.py 85-98): a failed install goes
\* to the repair step and then, by continue, to the next iteration
MutAfterInstall(ok) == "check"
AfterInstall(ok) == IF ok THEN "check" ELSE "repair"

\* where run goes on after _attempt_repair returned: in both phases the loop
\* body ends (continue at line 98, end of the body at line 120)
MutAfterRepair(ph) == IF ph = "checks" THEN "check" ELSE "loop"
MutNoContinueAfterRepair(ph) == IF ph = "install" THEN "check" ELSE "loop"
AfterRepair(ph) == "loop"

\* the throttle at the head of the loop body (agent.py 73-79)
MutSleeps(n, c) == c.sleep_between_iterations > 0
Sleeps(n, c) == n > 1 /\ c.sleep_between_iterations > 0

\* the first step of iteration n: run calls _install_dependencies in every
\* iteration, whatever the configuration says (agent.py 81-82)
MutFirstStep(n, c) == IF n = 1 \/ c.reinstall_on_change THEN "install" ELSE "check"
FirstStep(n, c) == "install"

\* for iteration in range(...): the next iteration starts, after the delay
StartIteration ==
    /\ pc = "loop"
    /\ InRange(NextIndex(iteration), cfg.max_iterations)
    /\ iteration' = NextIndex(iteration)
    /\ trace' = IF Sleeps(iteration', cfg)
                THEN trace \o <<Event("iteration", iteration', "", "", NoOutcome),
                                Event("sleep", iteration', "", "", NoOutcome)>>
                ELSE Append(trace, Event("iteration", iteration', "", "", NoOutcome))
    /\ pc' = FirstStep(iteration', cfg)
    /\ UNCHANGED <<cfg, phase, logs, venv, disk, devops, codecVars, extVars>>

\* what the end of run does to the backend tree when all attempts failed
\* (agent.py 122-125): it logs, writes status.txt and returns
MutOnFailed(d) == <<>>
OnFailed(d) == d

\* the loop is exhausted: status.txt says FAILED
Exhausted ==
    /\ pc = "loop"
    /\ ~InRange(NextIndex(iteration), cfg.max_iterations)
    /\ devops' = WriteText(devops, StatusFile, StatusFailed(cfg.max_iterations))
    /\ trace' = Append(trace, Event("status", iteration, "", "FAILED", NoOutcome))
    /\ pc' = "done"
    /\ disk' = OnFailed(disk)
    /\ UNCHANGED <<cfg, iteration, phase, logs, venv, codecVars, extVars>>

\* step 1 of an iteration: _install_dependencies and install_<n>.log
InstallWith(venvOut, left, pipOut) ==
    /\ pc = "install"
    /\   LET r == _install_dependencies(disk, venv, venvOut, left, pipOut)
         IN  /\ pipOut \in CmdOutcomesIn(r.venv)
             /\ venv' = r.venv
             /\ IF r.raised
                THEN /\ pc' = "raised"
                     /\ trace' = Append(trace, Event("install", iteration, "", "raised", NoOutcome))
                     /\ UNCHANGED <<devops, phase, logs>>
                ELSE /\ devops' = WriteText(devops, InstallLog(iteration), r.log)
                     /\ trace' = Append(trace, Event("install", iteration, "",
                                                     IF r.ok THEN "ok" ELSE "fail", NoOutcome))
                     /\ pc' = AfterInstall(r.ok)
                     /\ IF r.ok
                        THEN UNCHANGED <<phase, logs>>
                        ELSE phase' = "install" /\ logs' = r.log
    /\ UNCHANGED <<cfg, iteration, disk, codecVars>>

Install ==
    /\ \E venvOut \in ExitCodes, left \in {"absent", "broken"}, pipOut \in CmdOutcomes :
         InstallWith(venvOut, left, pipOut)
    /\ UNCHANGED extVars

\* step 2 of an iteration: _run_backend_checks, checks_<n>.log, and
\* status.txt when the checks passed
CheckWith(importOut, runOut) ==
    /\ pc = "check"
    /\   LET r == _run_backend_checks(disk, venv, cfg, importOut, runOut)
         IN  IF r.raised
             THEN /\ pc' = "raised"
                  /\ trace' = Append(trace, Event("check", iteration, "", "raised", NoOutcome))
                  /\ UNCHANGED <<devops, phase, logs>>
             ELSE LET dv1 == WriteText(devops, ChecksLog(iteration), r.log)
                  IN  /\ trace' = Append(trace, Event("check", iteration, "",
                                                      IF r.ok THEN "ok" ELSE "fail", NoOutcome))
                      /\ pc' = AfterCheck(r.ok)
                      /\ IF pc' = "done"
                         THEN /\ devops' = WriteText(dv1, StatusFile, StatusSuccess(iteration))
                              /\ UNCHANGED <<phase, logs>>
                         ELSE /\ devops' = dv1
                              /\ phase' = "checks"
                              /\ logs' = r.log
    /\ UNCHANGED <<cfg, iteration, venv, disk, codecVars>>

Check ==
    /\ \E importOut \in CmdOutcomesIn(venv), runOut \in CmdOutcomesIn(venv) :
         CheckWith(importOut, runOut)
    /\ UNCHANGED extVars

P_in == <<"backend", "/", "a">>
P_out == <<"..", "/", "a">>
ValidIn == <<StartLine(P_in), TextLine(<<"x">>), EndLine(P_in)>>
ValidOut == <<StartLine(P_out), TextLine(<<"x">>), EndLine(P_out)>>
Unclosed == <<StartLine(P_in), TextLine(<<"x">>)>>
OracleTexts == {ValidIn, ValidOut, Unclosed}
OracleExceptions == {"quota", "timeout"}
OracleOutcomes ==
    {OracleRaises(e) : e \in OracleExceptions} \cup {OracleReturns(t) : t \in OracleTexts}

\* the repair step of an iteration: _attempt_repair
Repair ==
    /\ pc = "repair"
    /\ \E o \in OracleOutcomes :
         LET r == _attempt_repair(devops, disk, iteration, phase, o)
         IN  /\ devops' = r.devops
             /\ disk' = r.disk
             /\ pc' = IF r.raised THEN "raised" ELSE AfterRepair(phase)
             /\ trace' = Append(trace, Event("oracle", iteration, phase, RepairResult(o), o))
    /\ UNCHANGED <<cfg, iteration, phase, logs, venv, codecVars, extVars>>

DefaultConfig ==
    [max_iterations |-> 10, reinstall_on_change |-> TRUE, run_import_check |-> TRUE,
     run_uvicorn_check |-> FALSE, sleep_between_iterations |-> 15,
     transient_retry_delay |-> 10]

FlagVariants ==
    {DefaultConfig,
     [DefaultConfig EXCEPT !.sleep_between_iterations = 0],
     [DefaultConfig EXCEPT !.run_import_check = FALSE],
     [DefaultConfig EXCEPT !.run_uvicorn_check = TRUE],
     [DefaultConfig EXCEPT !.reinstall_on_change = FALSE]}

Configs == {[c EXCEPT !.max_iterations = m] : c \in FlagVariants, m \in 0..MaxIter}

TreeOf(rels) == [q \in {BackendRoot \o r : r \in rels} |-> <<"generated">>]

InitialDisks ==
    {TreeOf({}), TreeOf({RunBackend, AppMain, CheckBackend}),
     TreeOf({ReqFile, RunBackend, AppMain, CheckBackend}), TreeOf({ReqFile, AppMain})}

NoResult == [op |-> "none", calls |-> 0, written |-> <<>>, raised |-> FALSE, err |-> ""]

\* the pipeline ran its earlier stages: the spec, the architecture and
\* backend_generation.txt exist, and prompt.md is part of the package
AllPresent == [prompt |-> TRUE, spec |-> TRUE, architecture |-> TRUE, raw_backend |-> TRUE]

\* the harness variables of a specification that does not use them
\* no LLMRouter.call and no generate_robust_code is in progress
NoRouter ==
    [wiring |-> <<>>, role |-> "", state |-> "idle", providers |-> <<>>, idx |-> 0,
     called |-> <<>>, last_error |-> 0, result |-> <<>>]
NoCoder ==
    [fragment |-> <<>>, state |-> "idle", attempts |-> 0, code |-> <<>>, checked |-> <<>>,
     debugs |-> 0, result |-> <<>>]
NoPeer == [cfg |-> DefaultConfig, pc |-> "none", iteration |-> 0, phase |-> "", logs |-> <<>>]
ExtIdle ==
    /\ upstream = AllPresent
    /\ running = <<>>
    /\ captured = <<>>
    /\ who = 1
    /\ peer = NoPeer
    /\ router = NoRouter
    /\ coder = NoCoder
    /\ router = NoRouter
    /\ coder = NoCoder

Init ==
    /\ cfg \in Configs
    /\ pc = "loop"
    /\ iteration = 0
    /\ phase = ""
    /\ logs = <<>>
    /\ venv \in {"absent", "broken", "ready"}
    /\ disk \in InitialDisks
    /\ devops = <<>>
    /\ trace = <<>>
    /\ bundle = <<>>
    /\ out_dir = <<>>
    /\ parse_text = <<>>
    /\ result = NoResult
    /\ ExtIdle

Next == StartIteration \/ Exhausted \/ Install \/ Check \/ Repair

Spec == Init /\ [][Next]_vars

\* run is a sequential program: it keeps taking its next step
LiveSpec == Spec /\ WF_vars(Next)

----------------------------------------------------------------------------
(* The codec on its own: write_file_bundle applied to bundles of every shape *)

Paths == SeqsUpTo(PathTokens, MaxPathLen)

\* the i-th entry of a bundle carries the content "c<i>\n"
ContentNo(i) == <<"c", i, "\n">>

\* lists of at most n pairwise distinct paths that use at most b path tokens
\* between them
RECURSIVE PathListsOf(_, _)
PathListsOf(n, b) ==
    IF n = 0 THEN {<<>>}
    ELSE {<<>>} \cup
         UNION {{<<p>> \o rest :
                    rest \in {r \in PathListsOf(n - 1, b - Len(p)) :
                                 \A i \in 1..Len(r) : r[i] # p}} :
                p \in {q \in Paths : Len(q) <= b}}

\* the bundles of at most n entries and b path tokens, none empty
Bundles(n, b) ==
    {[i \in 1..Len(ps) |-> [path |-> ps[i], content |-> ContentNo(i)]] :
        ps \in PathListsOf(n, b) \ {<<>>}}

OutDir == <<"out">>

CodecInit ==
    /\ bundle \in Bundles(MaxEntries, MaxBundleTokens)
    /\ out_dir = OutDir
    /\ parse_text = <<>>
    /\ disk = <<>>
    /\ result = NoResult
    /\ cfg = DefaultConfig
    /\ pc = "codec"
    /\ iteration = 0
    /\ phase = ""
    /\ logs = <<>>
    /\ venv = "absent"
    /\ devops = <<>>
    /\ trace = <<>>
    /\ ExtIdle

\* one call write_file_bundle(bundle, out_dir); a second call repeats it
WriteBundle ==
    /\ pc = "codec"
    /\ result.op \in {"none", "write"}
    /\ result.op = "write" => result.calls < 2
    /\ LET r == write_file_bundle(bundle, out_dir, disk)
       IN  /\ disk' = r.disk
           /\ result' = [op |-> "write", calls |-> IF result.op = "write" THEN 2 ELSE 1,
                         written |-> r.written, raised |-> r.raised, err |-> ""]
    /\ UNCHANGED <<bundle, out_dir, parse_text, loopVars, extVars>>

CodecNext == WriteBundle

CodecSpec == CodecInit /\ [][CodecNext]_vars

----------------------------------------------------------------------------
(* The codec on its own: parse_file_bundle applied to texts of every shape *)

\* two paths that differ only in letter case
PathLower == <<"a">>
PathUpper == <<"A">>

\* the lines of a text: markers of the two paths, and lines that match
\* neither pattern (empty, blank, with and without trailing whitespace)
Lines ==
    {StartLine(p) : p \in {PathLower, PathUpper}} \cup
    {EndLine(p) : p \in {PathLower, PathUpper}} \cup
    {TextLine(s) : s \in {<<>>, <<" ">>, <<"x">>, <<"x", " ">>}}

Texts(n) == SeqsUpTo(Lines, n)

ParseInit ==
    /\ parse_text \in Texts(MaxLines)
    /\ bundle = <<>>
    /\ out_dir = OutDir
    /\ disk = <<>>
    /\ result = NoResult
    /\ cfg = DefaultConfig
    /\ pc = "codec"
    /\ iteration = 0
    /\ phase = ""
    /\ logs = <<>>
    /\ venv = "absent"
    /\ devops = <<>>
    /\ trace = <<>>
    /\ ExtIdle

\* one call bundle = parse_file_bundle(parse_text); raised says that it ended in
\* FileBundleParseError
ParseText ==
    /\ pc = "codec"
    /\ result.op = "none"
    /\ LET r == parse_file_bundle(parse_text)
       IN  /\ bundle' = r.files
           /\ result' = [op |-> "parse", calls |-> 1, written |-> <<>>,
                         raised |-> ~r.ok, err |-> r.err]
    /\ UNCHANGED <<parse_text, out_dir, disk, loopVars, extVars>>

ParseNext == ParseText

ParseSpec == ParseInit /\ [][ParseNext]_vars

----------------------------------------------------------------------------
(* The controller from its construction on *)

\* the caller hands over everything, or one thing is absent
UpstreamVariants ==
    {AllPresent,
     [AllPresent EXCEPT !.prompt = FALSE],
     [AllPresent EXCEPT !.spec = FALSE],
     [AllPresent EXCEPT !.architecture = FALSE],
     [AllPresent EXCEPT !.raw_backend = FALSE]}

\* DevOpsEngineerAgent.__init__: self._prompt_path.read_text() raises when
\* prompt.md does not exist; nothing else is looked at
Construct ==
    /\ pc = "new"
    /\ pc' = IF upstream.prompt THEN "constructed" ELSE "raised"
    /\ UNCHANGED <<cfg, iteration, phase, logs, venv, disk, devops, trace, codecVars, extVars>>

\* run up to the loop (agent.py 47-67): the directories are ensured and
\* spec_text, arch_text and raw_backend are read; an absent document gives
\* "" and the loop is entered all the same
Prelude ==
    /\ pc = "constructed"
    /\ pc' = "loop"
    /\ UNCHANGED <<cfg, iteration, phase, logs, venv, disk, devops, trace, codecVars, extVars>>

ConstructInit ==
    /\ upstream \in UpstreamVariants
    /\ running = <<>>
    /\ captured = <<>>
    /\ who = 1
    /\ peer = NoPeer
    /\ router = NoRouter
    /\ coder = NoCoder
    /\ cfg \in {[DefaultConfig EXCEPT !.max_iterations = m] : m \in 0..MaxIter}
    /\ pc = "new"
    /\ iteration = 0
    /\ phase = ""
    /\ logs = <<>>
    /\ venv \in {"absent", "broken", "ready"}
    /\ disk \in InitialDisks
    /\ devops = <<>>
    /\ trace = <<>>
    /\ bundle = <<>>
    /\ out_dir = <<>>
    /\ parse_text = <<>>
    /\ result = NoResult

ConstructNext == Construct \/ Prelude \/ Next

ConstructSpec == ConstructInit /\ [][ConstructNext]_vars

----------------------------------------------------------------------------
(* The commands of an iteration, one child process at a time *)

\* the outcome captured for a command of the current phase
Ran(cap, c) == \E i \in 1..Len(cap) : cap[i][1] = c
OutcomeOf(cap, c) ==
    IF Ran(cap, c) THEN cap[CHOOSE i \in 1..Len(cap) : cap[i][1] = c][2] ELSE "exit0"

\* the command that _install_dependencies (agent.py 146-164) or
\* _run_backend_checks (agent.py 393-417) runs next, "none" when it returns
NextCmd(at, cap, d, v, c) ==
    IF at = "install"
    THEN IF NeedsVenv(v) /\ ~Ran(cap, "venv") THEN "venv"
         ELSE IF OutcomeOf(cap, "venv") = "exit0" /\ Exists(d, ReqFile) /\ ~Ran(cap, "pip")
         THEN "pip" ELSE "none"
    ELSE IF ~HasPyFiles(d, v) \/ Missing(d) # <<>> THEN "none"
         ELSE IF DoImport(c, d) /\ ~Ran(cap, "import") THEN "import"
         ELSE IF OutcomeOf(cap, "import") # "oserror" /\ c.run_uvicorn_check
                 /\ ~Ran(cap, "runtime")
         THEN "runtime" ELSE "none"

\* the executable of a command: sys.executable for "python -m venv", else
\* pip or python of the venv, which exists once the venv was created
CanFailToStart(c, v) == c # "venv" /\ ~NeedsVenv(v) /\ "oserror" \in CmdOutcomesIn(v)

\* run_cmd returns only when proc.communicate() has returned (agent.py
\* 135-144, 380-389): the next command is started with no child running
MutBlocking(procs) == TRUE
Blocking(procs) == procs = <<>>

\* run_cmd, first half: subprocess.Popen starts the child, or raises OSError
StartCmd ==
    /\ pc \in {"install", "check"}
    /\ Blocking(running)
    /\ LET c == NextCmd(pc, captured, disk, venv, cfg)
       IN  /\ c # "none"
           /\ \/ running' = Append(running, c) /\ captured' = captured
              \/ /\ CanFailToStart(c, venv)
                 /\ captured' = Append(captured, <<c, "oserror">>)
                 /\ running' = running
    /\ UNCHANGED <<loopVars, disk, codecVars, upstream, who, peer, router, coder>>

\* run_cmd, second half: communicate() returns when the child has exited,
\* with its combined output, which is appended to lines
CmdExits ==
    /\ running # <<>>
    /\ \E code \in ExitCodes : captured' = Append(captured, <<Head(running), code>>)
    /\ running' = Tail(running)
    /\ UNCHANGED <<loopVars, disk, codecVars, upstream, who, peer, router, coder>>

\* _install_dependencies returns and run writes install_<n>.log
FinishInstall ==
    /\ running = <<>>
    /\ pc = "install"
    /\ NextCmd(pc, captured, disk, venv, cfg) = "none"
    /\ \E left \in {"absent", "broken"} :
         InstallWith(OutcomeOf(captured, "venv"), left, OutcomeOf(captured, "pip"))
    /\ captured' = <<>>
    /\ UNCHANGED <<running, upstream, who, peer, router, coder>>

\* _run_backend_checks returns and run writes checks_<n>.log
FinishCheck ==
    /\ running = <<>>
    /\ pc = "check"
    /\ NextCmd(pc, captured, disk, venv, cfg) = "none"
    /\ CheckWith(OutcomeOf(captured, "import"), OutcomeOf(captured, "runtime"))
    /\ captured' = <<>>
    /\ UNCHANGED <<running, upstream, who, peer, router, coder>>

ProcInit ==
    /\ cfg \in {[c EXCEPT !.max_iterations = m] :
                  c \in {DefaultConfig, [DefaultConfig EXCEPT !.run_uvicorn_check = TRUE]},
                  m \in 0..MaxIter}
    /\ pc = "loop"
    /\ iteration = 0
    /\ phase = ""
    /\ logs = <<>>
    /\ venv \in {"absent", "broken", "ready"}
    /\ disk \in InitialDisks
    /\ devops = <<>>
    /\ trace = <<>>
    /\ bundle = <<>>
    /\ out_dir = <<>>
    /\ parse_text = <<>>
    /\ result = NoResult
    /\ ExtIdle

ProcNext ==
    StartIteration \/ Exhausted \/ StartCmd \/ CmdExits \/ FinishInstall \/ FinishCheck \/ Repair

ProcSpec == ProcInit /\ [][ProcNext]_vars

----------------------------------------------------------------------------
(* Two controller instances on one project root *)

\* run keeps cfg and its loop state in the instance and in locals; backend_root,
\* the venv and devops_dir are derived from project_root alone (agent.py 47-49)
Private == [cfg |-> cfg, pc |-> pc, iteration |-> iteration, phase |-> phase, logs |-> logs]

\* the operating system runs the other instance: nothing in run waits for
\* or excludes another instance, so this can happen between any two steps.
\* Only an instance that has a step left is given the processor.
Switch ==
    /\ peer.pc \notin {"none", "done", "raised"}
    /\ IF trace = <<>> THEN TRUE ELSE trace[Len(trace)].ev # "switch"
    /\ cfg' = peer.cfg
    /\ pc' = peer.pc
    /\ iteration' = peer.iteration
    /\ phase' = peer.phase
    /\ logs' = peer.logs
    /\ peer' = Private
    /\ who' = 3 - who
    /\ trace' = Append(trace, Event("switch", who', "", "", NoOutcome))
    /\ UNCHANGED <<venv, disk, devops, codecVars, upstream, running, captured, router, coder>>

DuoInit ==
    /\ cfg \in {[DefaultConfig EXCEPT !.max_iterations = m] : m \in 0..1}
    /\ pc = "loop"
    /\ iteration = 0
    /\ phase = ""
    /\ logs = <<>>
    /\ venv = "ready"
    /\ disk = TreeOf({ReqFile, RunBackend, AppMain, CheckBackend})
    /\ devops = <<>>
    /\ trace = <<>>
    /\ bundle = <<>>
    /\ out_dir = <<>>
    /\ parse_text = <<>>
    /\ result = NoResult
    /\ upstream = AllPresent
    /\ running = <<>>
    /\ captured = <<>>
    /\ who = 1
    /\ peer = [NoPeer EXCEPT !.pc = "loop", !.cfg.max_iterations = 1]
    /\ router = NoRouter
    /\ coder = NoCoder

DuoNext == Switch \/ Next

DuoSpec == DuoInit /\ [][DuoNext]_vars

----------------------------------------------------------------------------
(* LLMRouter.call over every wiring of providers *)

LLMRoles == {"planning", "code_gen", "devops"}

\* provider.chat(messages) returns a text or raises an Exception
ChatOutcomes == {"text", "exception"}
Chains(n) == SeqsUpTo(ChatOutcomes, n)
ChatText(i) == <<"text of provider", i>>

\* providers_by_role.get(role, [])
Get(wiring, role) == IF role \in DOMAIN wiring THEN wiring[role] ELSE <<>>

\* the except branch of the loop body (llm_router.py 83-91): remember the
\* error and continue with the next provider
MutOnChatRaised(r) == [r EXCEPT !.last_error = r.idx, !.state = "raised"]
OnChatRaised(r) == [r EXCEPT !.last_error = r.idx, !.idx = r.idx + 1]

RouterRest == <<loopVars, disk, codecVars, upstream, running, captured, who, peer, coder>>

\* call, up to the loop (llm_router.py 69-75)
RouterStart ==
    /\ router.state = "idle"
    /\ LET providers == Get(router.wiring, router.role)
       IN  router' = IF providers = <<>>
                     THEN [router EXCEPT !.state = "raised", !.result = <<"No LLM providers configured">>]
                     ELSE [router EXCEPT !.state = "loop", !.providers = providers, !.idx = 1]
    /\ UNCHANGED RouterRest

\* one pass of the for loop (llm_router.py 77-91)
TryProvider ==
    /\ router.state = "loop"
    /\ router.idx <= Len(router.providers)
    /\ LET r == [router EXCEPT !.called = Append(router.called, router.idx)]
       IN  router' = IF router.providers[router.idx] = "text"
                     THEN [r EXCEPT !.state = "returned", !.result = ChatText(router.idx)]
                     ELSE OnChatRaised(r)
    /\ UNCHANGED RouterRest

\* the loop is over and nothing was returned (llm_router.py 93-94)
AllFailed ==
    /\ router.state = "loop"
    /\ router.idx > Len(router.providers)
    /\ router' = [router EXCEPT !.state = "raised",
                                !.result = <<"All LLM providers failed", router.last_error>>]
    /\ UNCHANGED RouterRest

RouterInit ==
    /\ cfg = DefaultConfig
    /\ pc = "idle"
    /\ iteration = 0
    /\ phase = ""
    /\ logs = <<>>
    /\ venv = "absent"
    /\ disk = <<>>
    /\ devops = <<>>
    /\ trace = <<>>
    /\ bundle = <<>>
    /\ out_dir = <<>>
    /\ parse_text = <<>>
    /\ result = NoResult
    /\ upstream = AllPresent
    /\ running = <<>>
    /\ captured = <<>>
    /\ who = 1
    /\ peer = NoPeer
    /\ coder = NoCoder
    /\ \E w \in [LLMRoles -> Chains(MaxProviders)], role \in LLMRoles \cup {"other"} :
         router = [NoRouter EXCEPT !.wiring = w, !.role = role]

RouterNext == RouterStart \/ TryProvider \/ AllFailed

RouterSpec == RouterInit /\ [][RouterNext]_vars

----------------------------------------------------------------------------
(* LogicCoderAgent.generate_robust_code *)

\* a piece of code: src 0 is the code built from the fragment, src k the fix
\* returned by the k-th debugger call; kind says what ast.parse does with it
CodeKinds == {"valid", "invalid", "unparsable"}
Code(src, kind) == [src |-> src, kind |-> kind]

\* Sandbox.run_check: None when ast.parse accepts the code, the message of
\* the SyntaxError when it raises one; any other exception of ast.parse
\* (ValueError, RecursionError, TypeError for a fix that is no string) escapes
run_check(code) ==
    IF code.kind = "valid" THEN "None"
    ELSE IF code.kind = "invalid" THEN "SyntaxError"
    ELSE "escapes"

\* while attempts < 3
AttemptLimit == 3
MutTriesLeft(attempts) == attempts <= AttemptLimit
TriesLeft(attempts) == attempts < AttemptLimit

CoderRest == <<loopVars, disk, codecVars, upstream, running, captured, who, peer, router>>

\* the fragments: the ids that _specialized_code knows and others, with
\* names that are Python identifiers and names that are not
Canonical ==
    {"initialize_state", "render_sidebar_controls", "load_prices", "compute_metrics",
     "render_main_dashboard"}
Identifiers == {"helper", "x", "y"}
Fragments ==
    [id : Canonical \cup {"helper", "not an id"},
     inputs : {<<>>, <<"x">>, <<"not a name">>},
     outputs : {<<>>, <<"y">>, <<"1y">>}]

\* _specialized_code returns a fixed text for a canonical id, else None;
\* _stub_code then writes def <id>(<inputs>), an assignment per output and a
\* return: Python only when all these names are identifiers
_specialized_code(f) == IF f.id \in Canonical THEN "valid" ELSE "None"
_stub_code(f) ==
    IF /\ f.id \in Identifiers
       /\ \A i \in 1..Len(f.inputs) : f.inputs[i] \in Identifiers
       /\ \A i \in 1..Len(f.outputs) : f.outputs[i] \in Identifiers
    THEN "valid" ELSE "invalid"

\* the start of generate_robust_code (logic_coder.py 34-38)
CoderStart ==
    /\ coder.state = "idle"
    /\ LET special == _specialized_code(coder.fragment)
           kind == IF special = "None" THEN _stub_code(coder.fragment) ELSE special
       IN  coder' = [coder EXCEPT !.state = "loop", !.attempts = 0, !.code = Code(0, kind)]
    /\ UNCHANGED CoderRest

\* the head of a pass of the loop: the sandbox check (logic_coder.py 40-43)
CoderCheck ==
    /\ coder.state = "loop"
    /\ TriesLeft(coder.attempts)
    /\ LET error == run_check(coder.code)
           c == [coder EXCEPT !.checked = Append(coder.checked, coder.code)]
       IN  coder' = IF error = "None"
                    THEN [c EXCEPT !.state = "returned", !.result = coder.code]
                    ELSE IF error = "escapes"
                    THEN [c EXCEPT !.state = "raised"]
                    ELSE [c EXCEPT !.state = "fix"]
    /\ UNCHANGED CoderRest

\* the rest of the pass: the debugger is asked for a fix, which replaces the
\* code (logic_coder.py 45-56); the model call behind it may raise
CoderDebug ==
    /\ coder.state = "fix"
    /\ \E out \in CodeKinds \cup {"llm_error"} :
         coder' = IF out = "llm_error"
                  THEN [coder EXCEPT !.state = "raised", !.debugs = coder.debugs + 1]
                  ELSE [coder EXCEPT !.state = "loop", !.debugs = coder.debugs + 1,
                                     !.code = Code(coder.debugs + 1, out),
                                     !.attempts = coder.attempts + 1]
    /\ UNCHANGED CoderRest

\* the loop is over (logic_coder.py 58)
CoderGiveUp ==
    /\ coder.state = "loop"
    /\ ~TriesLeft(coder.attempts)
    /\ coder' = [coder EXCEPT !.state = "failed",
                              !.result = <<"Failed to generate working code after 3 attempts.">>]
    /\ UNCHANGED CoderRest

CoderInit ==
    /\ cfg = DefaultConfig
    /\ pc = "idle"
    /\ iteration = 0
    /\ phase = ""
    /\ logs = <<>>
    /\ venv = "absent"
    /\ disk = <<>>
    /\ devops = <<>>
    /\ trace = <<>>
    /\ bundle = <<>>
    /\ out_dir = <<>>
    /\ parse_text = <<>>
    /\ result = NoResult
    /\ upstream = AllPresent
    /\ running = <<>>
    /\ captured = <<>>
    /\ who = 1
    /\ peer = NoPeer
    /\ router = NoRouter
    /\ \E f \in Fragments : coder = [NoCoder EXCEPT !.fragment = f]

CoderNext == CoderStart \/ CoderCheck \/ CoderDebug \/ CoderGiveUp

CoderSpec == CoderInit /\ [][CoderNext]_vars

----------------------------------------------------------------------------
(* Properties *)

Events(ev) == {i \in 1..Len(trace) : trace[i].ev = ev}
EventsWith(ev, res) == {i \in 1..Len(trace) : trace[i].ev = ev /\ trace[i].res = res}
LastEvent == trace[Len(trace)]
LastIs(ev, res) == trace # <<>> /\ LastEvent.ev = ev /\ LastEvent.res = res
Arts(kind) == {a \in DOMAIN devops : a.kind = kind}
\* status.txt exists and holds the given text
StatusReads(st) == StatusFile \in DOMAIN devops /\ devops[StatusFile] = st
SuccessText(n) == <<"SUCCESS on iteration", n>>
FailedText(n) == <<"FAILED after", n, "iterations">>
InLoopBody == pc \in {"install", "check", "repair"}

\* a command of the install or check phase could not be started (OSError):
\* not one of the outcomes ok / fail of those phases
CommandNotStarted == pc = "raised" /\ LastEvent.ev \in {"install", "check"}

\* the path of a bundle entry lies under the allow-listed prefix "backend/"
UnderBackendPrefix(path) == Len(path) >= 2 /\ SubSeq(path, 1, 2) = <<"backend", Sep>>

\* the files that a step creates or changes
Changed(d, e) == {q \in DOMAIN e : q \notin DOMAIN d \/ e[q] # d[q]}

\* C1: whatever the install, validation and oracle outcomes are (exit codes
\* of the commands; the oracle raising, returning unparsable text or parsable
\* text), run terminates with status.txt holding exactly one of SUCCESS and
\* FAILED, having started at most max_iterations iterations; an oracle that
\* fails every time does not keep the loop running.
C1_Terminates ==
    /\ <>((pc = "done" /\ Cardinality(Events("iteration")) <= cfg.max_iterations
             /\ \/ StatusReads(FailedText(cfg.max_iterations))
                \/ \E n \in 1..cfg.max_iterations : StatusReads(SuccessText(n)))
          \/ CommandNotStarted)
    /\ [](Cardinality(Events("iteration")) <= cfg.max_iterations)

C1_Witness ==
    /\ pc = "done"
    /\ cfg.max_iterations = MaxIter
    /\ StatusReads(FailedText(MaxIter))
    /\ Cardinality(EventsWith("oracle", "call_failed")) = MaxIter

\* C2: inside the loop body the iteration index is between 1 and
\* max_iterations; every new index is the previous one plus one, so the
\* iterations started so far are 1, 2, ..., iteration, none repeated or skipped.
C2_IterationIndex ==
    /\ [](InLoopBody => (1 <= iteration /\ iteration <= cfg.max_iterations))
    /\ [](\A i \in Events("iteration") :
            trace[i].n = Cardinality({j \in Events("iteration") : j <= i}))
    /\ [][iteration' # iteration => iteration' = iteration + 1]_vars

C2_Witness == pc = "install" /\ iteration = 2

\* C3: when CHECK passes in iteration n, run writes "SUCCESS on iteration n"
\* to status.txt and returns: the passed check is the last thing run did, the
\* oracle is not called in iteration n, and no FAILED status is written.
C3_SuccessOnPass ==
    \A i \in EventsWith("check", "ok") :
        /\ i = Len(trace)
        /\ pc = "done"
        /\ StatusReads(SuccessText(trace[i].n))
        /\ \A j \in Events("oracle") : trace[j].n # trace[i].n
        /\ Events("status") = {}

C3_Witness ==
    /\ LastIs("check", "ok")
    /\ LastEvent.n = 2
    /\ trace[Len(trace) - 1].ev = "install"
    /\ trace[Len(trace) - 1].res = "ok"
    /\ pc = "done"

\* C4: when the validator first succeeds in iteration k, the loop ends in
\* SUCCESS on iteration k: the install logs are exactly install_1..install_k,
\* checks_<n>.log exists exactly for the iterations n that reached CHECK, and
\* status.txt reads "SUCCESS on iteration k".
C4_SuccessOnK ==
    LastIs("check", "ok") =>
        LET k == LastEvent.n
        IN  /\ pc = "done"
            /\ k <= cfg.max_iterations
            /\ StatusReads(SuccessText(k))
            /\ Arts("install") = {InstallLog(n) : n \in 1..k}
            /\ Arts("checks") = {ChecksLog(trace[i].n) : i \in Events("check")}

C4_Witness ==
    /\ LastIs("check", "ok")
    /\ LastEvent.n = 2
    /\ EventsWith("install", "ok") = {i \in Events("install") : TRUE}
    /\ Cardinality(EventsWith("check", "fail")) = 1
    /\ Arts("checks") = {ChecksLog(1), ChecksLog(2)}

\* C5: when the validator never succeeds, status.txt is written only after
\* exactly max_iterations iterations and reads "FAILED after max_iterations
\* iterations"; SUCCESS is never written.
C5_FailedAfterMax ==
    EventsWith("check", "ok") = {} =>
        /\ \A n \in 1..MaxIter + 1 : ~StatusReads(SuccessText(n))
        /\ pc = "done" =>
             /\ Cardinality(Events("iteration")) = cfg.max_iterations
             /\ StatusReads(FailedText(cfg.max_iterations))
        /\ StatusFile \in DOMAIN devops => pc = "done"

C5_Witness ==
    /\ pc = "done"
    /\ cfg.max_iterations = MaxIter
    /\ StatusReads(FailedText(MaxIter))
    /\ Cardinality(EventsWith("check", "fail")) = MaxIter

\* the bundle that the last oracle call returned, once it parsed
ParsedFiles(e) == parse_file_bundle(e.out.text).files

\* C6: when the oracle call succeeds and its output parses, the repair step
\* has put every file of the decoded bundle (under the allow-listed prefix)
\* on disk with the bundle's content before the loop re-enters INSTALL.
C6_BundleApplied ==
    (pc = "loop" /\ LastIs("oracle", "parsed")) =>
        \A i \in 1..Len(ParsedFiles(LastEvent)) :
            LET e == ParsedFiles(LastEvent)[i]
                t == WriteTarget(CodebaseDir, e.path)
            IN  UnderBackendPrefix(e.path) => (t \in DOMAIN disk /\ disk[t] = e.content)

\* C7: with an oracle that raises on every call, the loop still ends in
\* FAILED after max_iterations iterations unless a check passed; no repair
\* step creates or changes a file of the backend tree; every failed call has
\* its own patch_error_<phase>_<n>.log and there is no patch_raw or
\* invalid_patch artifact.
C7_OracleAlwaysRaises ==
    /\ [](Events("oracle") = EventsWith("oracle", "call_failed") =>
            /\ Arts("patch_error") = {PatchError(trace[i].ph, trace[i].n) : i \in Events("oracle")}
            /\ Cardinality(Arts("patch_error")) = Cardinality(Events("oracle"))
            /\ Arts("patch_raw") = {} /\ Arts("invalid_patch") = {}
            /\ (pc = "done" /\ EventsWith("check", "ok") = {}) =>
                  /\ StatusReads(FailedText(cfg.max_iterations))
                  /\ Cardinality(Events("iteration")) = cfg.max_iterations)
    /\ [][(pc = "repair" /\ trace'[Len(trace')].res = "call_failed") =>
            (disk' = disk /\ pc' = "loop")]_vars

C7_Witness ==
    /\ pc = "done"
    /\ cfg.max_iterations = MaxIter
    /\ StatusReads(FailedText(MaxIter))
    /\ Cardinality(EventsWith("oracle", "call_failed")) = MaxIter
    /\ Cardinality(Arts("patch_error")) = MaxIter
    /\ \E n \in 1..MaxIter : PatchError("install", n) \in DOMAIN devops
    /\ \E n \in 1..MaxIter : PatchError("checks", n) \in DOMAIN devops

\* C8: when the oracle returns text that fails the codec grammar, the repair
\* step leaves the disk unchanged, records invalid_patch_<phase>_<n>.txt
\* holding the raw output, and the iteration is consumed: the loop goes on
\* with the next index or with FAILED.
C8_Unparsable ==
    /\ [][(pc = "repair" /\ trace'[Len(trace')].res = "unparsable") =>
            /\ disk' = disk
            /\ InvalidPatch(phase, iteration) \in DOMAIN devops'
            /\ devops'[InvalidPatch(phase, iteration)] = trace'[Len(trace')].out.text
            /\ pc' = "loop"
            /\ iteration' = iteration]_vars
    /\ [][(pc = "loop" /\ LastIs("oracle", "unparsable")) =>
            \/ (pc' = "install" /\ iteration' = iteration + 1)
            \/ (pc' = "done" /\ StatusReads(FailedText(cfg.max_iterations))')]_vars

C8_Witness ==
    /\ pc = "loop"
    /\ LastIs("oracle", "unparsable")
    /\ InvalidPatch(phase, iteration) \in DOMAIN devops
    /\ devops[InvalidPatch(phase, iteration)] = Unclosed

\* C9: every file that write_file_bundle writes lies inside out_dir, whatever
\* the bundle paths are (leading "/", leading "\", ".." segments).
C9_Confined ==
    result.op = "write" =>
        /\ \A i \in 1..Len(result.written) : IsPrefix(out_dir, Resolve(result.written[i], <<>>))
        /\ \A q \in DOMAIN disk : IsPrefix(out_dir, q)

\* C10: a repair step writes no bundle entry whose path is not under the
\* allow-listed prefix: every file a repair step creates or changes is the
\* target of an entry of the parsed bundle whose path is under "backend/".
C10_AllowListed ==
    [][pc = "repair" =>
         \A q \in Changed(disk, disk') :
            /\ trace'[Len(trace')].res = "parsed"
            /\ \E i \in 1..Len(ParsedFiles(trace'[Len(trace')])) :
                 LET e == ParsedFiles(trace'[Len(trace')])[i]
                 IN  UnderBackendPrefix(e.path) /\ WriteTarget(CodebaseDir, e.path) = q]_vars

C10_Witness ==
    /\ pc = "loop"
    /\ LastIs("oracle", "parsed")
    /\ \E i \in 1..Len(ParsedFiles(LastEvent)) :
         LET e == ParsedFiles(LastEvent)[i]
         IN  ~UnderBackendPrefix(e.path) /\ WriteTarget(CodebaseDir, e.path) \notin DOMAIN disk


\* C11: no internal failure escapes the repair loop as an exception: whatever
\* fails during an iteration (provisioning, installation, validation, the
\* oracle call, patch parsing), run returns normally, so it never ends by
\* raising.
C11_NoEscape == pc # "raised"

\* C12: the Validator never raises: a check command that cannot be started
\* is folded into a result with ok = false, so the CHECK step of an iteration
\* never ends in an exception.
C12_ValidatorNeverRaises ==
    \A i \in Events("check") : trace[i].res \in {"ok", "fail"}


\* the marker lines of a text, and the marker line nearest before line j
Markers(t) == {i \in 1..Len(t) : t[i].k # "text"}
Starts(t) == {i \in 1..Len(t) : t[i].k = "start"}
Ends(t) == {i \in 1..Len(t) : t[i].k = "end"}
PrevMarker(t, j) ==
    IF \E i \in Markers(t) : i < j
    THEN CHOOSE i \in Markers(t) : i < j /\ \A h \in Markers(t) : h < j => h <= i
    ELSE 0

\* a text of one or more non-nested, correctly paired blocks
WellFormed(t) ==
    /\ Starts(t) # {}
    /\ \A j \in Starts(t) : PrevMarker(t, j) = 0 \/ t[PrevMarker(t, j)].k = "end"
    /\ \A j \in Ends(t) : /\ PrevMarker(t, j) # 0
                          /\ t[PrevMarker(t, j)].k = "start"
                          /\ t[PrevMarker(t, j)].p = t[j].p
    /\ \A j \in Starts(t) : \E h \in Ends(t) : h > j

BlockPaths(t) == {t[i].p : i \in Starts(t)}
Parsed == result.op = "parse"

\* C13 as stated: a well-formed text with N blocks parses to exactly N entries.
C13_ExactlyN ==
    (Parsed /\ WellFormed(parse_text)) =>
        (~result.raised /\ Len(bundle) = Cardinality(Starts(parse_text)))

\* C13 amended: a well-formed text with N blocks parses to one entry per
\* distinct block path, in the order of first appearance: exactly N entries
\* when the N block paths are pairwise distinct.
C13_OnePerPath ==
    (Parsed /\ WellFormed(parse_text)) =>
        /\ ~result.raised
        /\ Len(bundle) = Cardinality(BlockPaths(parse_text))
        /\ {bundle[i].path : i \in 1..Len(bundle)} = BlockPaths(parse_text)
        /\ (Cardinality(BlockPaths(parse_text)) = Cardinality(Starts(parse_text))
              => Len(bundle) = Cardinality(Starts(parse_text)))

C13_Witness ==
    /\ Parsed
    /\ WellFormed(parse_text)
    /\ Cardinality(Starts(parse_text)) = 2
    /\ Len(bundle) = 2

\* C14: every content of a parsed bundle ends with exactly one newline and
\* has no other whitespace right before it, however many blank or
\* whitespace-only lines end the block; an empty block gives a single newline.
C14_OneTrailingNewline ==
    (Parsed /\ ~result.raised) =>
        /\ \A i \in 1..Len(bundle) :
             LET c == bundle[i].content
             IN  /\ c # <<>>
                 /\ c[Len(c)] = "\n"
                 /\ Len(c) > 1 => c[Len(c) - 1] \notin {" ", "\n"}
        /\ \A j \in Ends(parse_text) :
             (PrevMarker(parse_text, j) = j - 1 /\ \A h \in Ends(parse_text) : h <= j)
                => \E i \in 1..Len(bundle) :
                      bundle[i].path = parse_text[j].p /\ bundle[i].content = <<"\n">>

C14_Witness ==
    /\ Parsed
    /\ ~result.raised
    /\ \E j \in Ends(parse_text) :
         /\ j >= 4
         /\ parse_text[j - 1] = TextLine(<<" ">>)
         /\ parse_text[j - 2] = TextLine(<<>>)
         /\ parse_text[j - 3] = TextLine(<<"x", " ">>)
    /\ bundle[1].content = <<"x", "\n">>

\* C15: a start marker that appears while another block is still open makes
\* parse_file_bundle fail, whatever follows it.
C15_NestedFails ==
    (Parsed /\ \E j \in Starts(parse_text) :
                  PrevMarker(parse_text, j) # 0 /\ parse_text[PrevMarker(parse_text, j)].k = "start")
        => result.raised

C15_Witness ==
    /\ Parsed
    /\ result.raised
    /\ result.err = "Nested FILE_START"
    /\ Len(parse_text) >= 4
    /\ parse_text[1].k = "start" /\ parse_text[2].k = "start"
    /\ parse_text[3] = EndLine(parse_text[2].p)
    /\ parse_text[4] = EndLine(parse_text[1].p)

\* C16: an end marker with no open block, or with a path other than the
\* path of the open block, makes parse_file_bundle fail.
C16_BadEndFails ==
    (Parsed /\ \E j \in Ends(parse_text) :
                  LET i == PrevMarker(parse_text, j)
                  IN  \/ i = 0
                      \/ parse_text[i].k = "end"
                      \/ parse_text[i].p # parse_text[j].p)
        => result.raised

C16_Witness ==
    /\ Parsed
    /\ result.raised
    /\ result.err = "Mismatched FILE_END"
    /\ parse_text[1] = StartLine(PathLower)
    /\ parse_text[Len(parse_text)] = EndLine(PathUpper)

\* C17: parse_file_bundle fails when the text ends with a block still open
\* and when it holds no complete block (the empty text, prose only); it
\* never returns an empty bundle.
C17_UnclosedOrEmptyFails ==
    Parsed =>
        /\ (Markers(parse_text) # {} /\ \A i \in Markers(parse_text) :
               (\A h \in Markers(parse_text) : h <= i) => parse_text[i].k = "start")
             => result.raised
        /\ Ends(parse_text) = {} => result.raised
        /\ ~result.raised => bundle # <<>>

C17_Witness ==
    /\ Parsed
    /\ result.raised
    /\ result.err = "No files found"
    /\ Len(parse_text) = 2
    /\ Markers(parse_text) = {}


\* C18: write_file_bundle is idempotent: a second call with the same bundle
\* and the same root leaves every file as the first call left it and returns
\* the same list of paths.
C18_Idempotent ==
    [][(pc = "codec" /\ result.op = "write" /\ result.calls = 1) =>
          /\ disk' = disk
          /\ result'.written = result.written
          /\ result'.raised = result.raised]_vars

C18_Witness ==
    /\ result.op = "write"
    /\ result.calls = 2
    /\ ~result.raised
    /\ Len(result.written) = 2
    /\ Cardinality(DOMAIN disk) = 1


\* the event that starts the iteration after the event at position i, if any
FollowedByNextInstall(i) ==
    \/ i = Len(trace)
    \/ /\ trace[i + 1].ev = "status"
       /\ trace[i].n = cfg.max_iterations
    \/ /\ trace[i + 1].ev = "iteration"
       /\ trace[i + 1].n = trace[i].n + 1
       /\ \A j \in (i + 2)..Len(trace) :
            (trace[j].ev \in {"install", "check", "oracle"} /\
               \A h \in (i + 2)..(j - 1) : trace[h].ev = "sleep")
              => (trace[j].ev = "install" /\ trace[j].n = trace[i].n + 1)

\* C19: a failed INSTALL in iteration n is followed by the repair step with
\* phase "install" and then by the INSTALL of iteration n+1 (or by FAILED
\* when n is the last iteration): CHECK is not run in iteration n, there is
\* no checks_<n>.log, and the repair artifacts of iteration n carry the phase
\* "install".
C19_InstallFailure ==
    \A i \in EventsWith("install", "fail") :
        LET n == trace[i].n
        IN  /\ \A j \in Events("check") : trace[j].n # n
            /\ ChecksLog(n) \notin DOMAIN devops
            /\ \A a \in Arts("patch_error") \cup Arts("patch_raw") \cup Arts("invalid_patch") :
                 a.n = n => a.ph = "install"
            /\ i = Len(trace) => (pc = "repair" /\ phase = "install" /\ iteration = n)
            /\ i < Len(trace) =>
                 /\ trace[i + 1].ev = "oracle"
                 /\ trace[i + 1].ph = "install"
                 /\ trace[i + 1].n = n
                 /\ FollowedByNextInstall(i + 1)

C19_Witness ==
    /\ Len(trace) >= 5
    /\ trace[2].ev = "install" /\ trace[2].res = "fail" /\ trace[2].n = 1
    /\ trace[3].ev = "oracle" /\ trace[3].ph = "install"
    /\ trace[Len(trace)].ev = "install" /\ trace[Len(trace)].n = 2
    /\ Arts("patch_raw") \cup Arts("patch_error") # {}

\* C20: a failed CHECK in iteration n is followed by the repair step with
\* phase "checks" and then by the INSTALL of iteration n+1 (or by FAILED when
\* n is the last iteration); CHECK is entered only from a successful INSTALL
\* of the same iteration, never directly after a repair step.
C20_CheckFailure ==
    /\ \A i \in EventsWith("check", "fail") :
          /\ i = Len(trace) => (pc = "repair" /\ phase = "checks" /\ iteration = trace[i].n)
          /\ i < Len(trace) =>
               /\ trace[i + 1].ev = "oracle"
               /\ trace[i + 1].ph = "checks"
               /\ trace[i + 1].n = trace[i].n
    /\ \A i \in Events("oracle") : FollowedByNextInstall(i)
    /\ \A i \in Events("check") :
          /\ i > 1
          /\ trace[i - 1].ev = "install"
          /\ trace[i - 1].res = "ok"
          /\ trace[i - 1].n = trace[i].n
    /\ pc = "check" => (trace[Len(trace)].ev = "install" /\ trace[Len(trace)].res = "ok")

C20_Witness ==
    /\ \E i \in EventsWith("check", "fail") :
          /\ trace[i].n = 1
          /\ i + 1 <= Len(trace)
          /\ trace[i + 1].ev = "oracle"
          /\ trace[i + 1].res = "parsed"
    /\ pc = "check"
    /\ iteration = 2



\* the log lines that _install_dependencies produces
SkipNote == <<"No requirements.txt found; skipping pip install.">>
PipLine(out) == <<"$ pip install -r", out>>
VenvLine(out) == <<"$ python -m venv", out>>
HasLine(log, l) == \E i \in 1..Len(log) : log[i] = l
ManifestExists(d) == (BackendRoot \o <<"requirements.txt">>) \in DOMAIN d
\* the event that the step being taken appends to the trace
NewEvent == trace'[Len(trace')]

\* C21 as stated: with no requirements.txt the install step returns ok = true
\* with the skip note and goes on to CHECK; with a requirements.txt and an
\* installer that exits non-zero it returns ok = false and goes to
\* REPAIR(install).
C21_NoManifestIsSuccess ==
    [][pc = "install" =>
         /\ ~ManifestExists(disk) =>
              /\ NewEvent.res = "ok"
              /\ pc' = "check"
              /\ HasLine(devops'[InstallLog(iteration)], SkipNote)
         /\ (ManifestExists(disk) /\ NewEvent.res # "raised"
               /\ HasLine(devops'[InstallLog(iteration)], PipLine("exit1"))) =>
              /\ NewEvent.res = "fail"
              /\ pc' = "repair" /\ phase' = "install"]_vars

\* C21 amended: the same, for an install step whose environment exists or
\* was created; when the environment has to be created and its creation
\* exits non-zero, the step returns ok = false whether or not a
\* requirements.txt exists.
C21_InstallOutcome ==
    [][pc = "install" =>
         /\ (~ManifestExists(disk) /\ (venv # "absent" \/ venv' = "ready")) =>
              /\ NewEvent.res = "ok"
              /\ pc' = "check"
              /\ HasLine(devops'[InstallLog(iteration)], SkipNote)
         /\ (~ManifestExists(disk) /\ venv = "absent" /\ venv' # "ready") =>
              /\ NewEvent.res = "fail"
              /\ pc' = "repair" /\ phase' = "install"
              /\ ~HasLine(devops'[InstallLog(iteration)], SkipNote)
         /\ (ManifestExists(disk) /\ NewEvent.res # "raised"
               /\ HasLine(devops'[InstallLog(iteration)], PipLine("exit1"))) =>
              /\ NewEvent.res = "fail"
              /\ pc' = "repair" /\ phase' = "install"]_vars

C21_Witness ==
    /\ pc = "repair" /\ phase = "install"
    /\ LastIs("install", "fail")
    /\ ManifestExists(disk)
    /\ devops[InstallLog(iteration)] = <<VenvLine("exit0"), PipLine("exit1")>>



\* the structural check of the Validator, and the lines that a spawned
\* command leaves in the check log
RequiredFiles == {<<"run_backend.py">>, <<"app", "main.py">>, <<"check_backend.py">>}
RequiredMissing(d) == \E r \in RequiredFiles : (BackendRoot \o r) \notin DOMAIN d
StructureFails(d, v) == ~HasPyFiles(d, v) \/ RequiredMissing(d)
ImportLine(out) == <<"$ python check_backend.py", out>>
RuntimeLine(out) == <<"$ python run_backend.py --check", out>>
IsCommandLine(l) == \E out \in CmdOutcomes : l \in {ImportLine(out), RuntimeLine(out)}
SpawnedNone(log) == \A i \in 1..Len(log) : ~IsCommandLine(log[i])

\* C22: when no source file exists under the backend root or a required file
\* is missing, the CHECK step fails at once with a one-line log and without
\* starting any command; a command is started only when the structural check
\* passed.
C22_StructureFirst ==
    [][pc = "check" =>
         /\ StructureFails(disk, venv) =>
              /\ NewEvent.res = "fail"
              /\ Len(devops'[ChecksLog(iteration)]) = 1
              /\ SpawnedNone(devops'[ChecksLog(iteration)])
         /\ (NewEvent.res = "raised" \/ ~SpawnedNone(devops'[ChecksLog(iteration)]))
              => ~StructureFails(disk, venv)]_vars

C22_Witness ==
    /\ pc = "repair" /\ phase = "checks"
    /\ LastIs("check", "fail")
    /\ venv = "ready"
    /\ RequiredMissing(disk)
    /\ devops[ChecksLog(iteration)] = << <<"Missing required files:", <<RunBackend, CheckBackend>> >> >>



\* the repair steps taken so far with the given phase, index and outcomes
RepairSteps(ph, n, outcomes) ==
    {i \in Events("oracle") : trace[i].ph = ph /\ trace[i].n = n /\ trace[i].res \in outcomes}

\* C23: patch_error_<phase>_<n>.log exists only for a repair step whose
\* oracle call failed, patch_raw_<phase>_<n>.txt only for one whose oracle
\* call returned text (and then holds that text), invalid_patch_<phase>_<n>.txt
\* only for one whose text failed to parse; no repair step has both a
\* patch_error and a patch_raw artifact.
C23_PatchArtifacts ==
    /\ \A a \in Arts("patch_error") :
          /\ RepairSteps(a.ph, a.n, {"call_failed"}) # {}
          /\ PatchRaw(a.ph, a.n) \notin DOMAIN devops
          /\ InvalidPatch(a.ph, a.n) \notin DOMAIN devops
    /\ \A a \in Arts("patch_raw") :
          /\ RepairSteps(a.ph, a.n, {"parsed", "unparsable"}) # {}
          /\ \A i \in RepairSteps(a.ph, a.n, {"parsed", "unparsable"}) :
               devops[a] = trace[i].out.text
    /\ \A a \in Arts("invalid_patch") :
          /\ RepairSteps(a.ph, a.n, {"unparsable"}) # {}
          /\ \A i \in RepairSteps(a.ph, a.n, {"unparsable"}) : devops[a] = trace[i].out.text

C23_Witness ==
    /\ pc = "done"
    /\ Cardinality(Arts("patch_error")) = 1
    /\ Cardinality(Arts("patch_raw")) = 1
    /\ Cardinality(Arts("invalid_patch")) = 1



OracleCallsIn(n) == {i \in Events("oracle") : trace[i].n = n}

\* C24: in each iteration the oracle is called at most once, directly after
\* the failed INSTALL or the failed CHECK of that iteration and with that
\* phase, never in an iteration whose CHECK passed; the backend tree changes
\* in repair steps only, so at most one bundle is applied per iteration.
C24_OneRepairPerIteration ==
    /\ [](\A i \in Events("oracle") :
            /\ Cardinality(OracleCallsIn(trace[i].n)) = 1
            /\ i > 1
            /\ trace[i - 1].n = trace[i].n
            /\ trace[i - 1].res = "fail"
            /\ \/ trace[i - 1].ev = "install" /\ trace[i].ph = "install"
               \/ trace[i - 1].ev = "check" /\ trace[i].ph = "checks")
    /\ [](\A i \in EventsWith("check", "ok") : OracleCallsIn(trace[i].n) = {})
    /\ [][disk' # disk => pc = "repair"]_vars

C24_Witness ==
    /\ Cardinality(Events("oracle")) = 2
    /\ \E i, j \in Events("oracle") :
         i < j /\ trace[i].ph = "checks" /\ trace[j].ph = "install" /\ trace[j].n = trace[i].n + 1



SleepsIn(n) == {i \in Events("sleep") : trace[i].n = n}

\* C25: there is no delay before the first iteration; with a delay greater
\* than zero configured, the install of every iteration n >= 2 comes right
\* after the one delay of that iteration; with a delay of zero there is none;
\* no delay follows the terminal status.
C25_Delay ==
    /\ SleepsIn(1) = {}
    /\ \A i \in Events("install") :
          (trace[i].n >= 2 /\ cfg.sleep_between_iterations > 0) =>
              /\ trace[i - 1].ev = "sleep"
              /\ trace[i - 1].n = trace[i].n
              /\ Cardinality(SleepsIn(trace[i].n)) = 1
    /\ cfg.sleep_between_iterations = 0 => Events("sleep") = {}
    /\ \A i \in Events("sleep") :
          /\ i = Len(trace) => pc = "install"
          /\ i < Len(trace) => trace[i + 1].ev = "install"
          /\ \A j \in 1..i : trace[j].ev # "status" /\ ~(trace[j].ev = "check" /\ trace[j].res = "ok")
    /\ pc = "done" => LastEvent.ev # "sleep"

C25_Witness ==
    /\ LastIs("oracle", "call_failed")
    /\ LastEvent.n = 2
    /\ Cardinality(Events("oracle")) = 2
    /\ Cardinality(Events("sleep")) = 1
    /\ cfg.sleep_between_iterations > 0



RanVenv(log) == \E out \in CmdOutcomes : HasLine(log, VenvLine(out))
RanPip(log) == \E out \in CmdOutcomes : HasLine(log, PipLine(out))

\* C26: the install step runs the environment-creation command only when
\* .venv does not exist, and then as its first command; when the creation
\* exits non-zero the step returns ok = false and the dependency installer
\* is not run.
C26_Provisioning ==
    [][pc = "install" =>
         /\ venv # "absent" =>
              /\ venv' = venv
              /\ NewEvent.res # "raised" => ~RanVenv(devops'[InstallLog(iteration)])
         /\ venv = "absent" =>
              /\ NewEvent.res # "raised"
              /\ \E out \in ExitCodes : devops'[InstallLog(iteration)][1] = VenvLine(out)
              /\ HasLine(devops'[InstallLog(iteration)], VenvLine("exit1")) =>
                   /\ NewEvent.res = "fail"
                   /\ devops'[InstallLog(iteration)] = <<VenvLine("exit1")>>
                   /\ ~RanPip(devops'[InstallLog(iteration)])
                   /\ pc' = "repair"]_vars

C26_Witness ==
    /\ InstallLog(1) \in DOMAIN devops /\ InstallLog(2) \in DOMAIN devops
    /\ HasLine(devops[InstallLog(1)], VenvLine("exit0"))
    /\ ~RanVenv(devops[InstallLog(2)])
    /\ RanPip(devops[InstallLog(2)])



ImportRuns(log) == {i \in 1..Len(log) : \E out \in CmdOutcomes : log[i] = ImportLine(out)}
RuntimeRuns(log) == {i \in 1..Len(log) : \E out \in CmdOutcomes : log[i] = RuntimeLine(out)}

\* C27: when the structural check passes and the Validator returns, the
\* import check has run once if run_import_check is set and not at all
\* otherwise, the runtime self-check has run once if run_uvicorn_check is set
\* (it is not set by default) and not at all otherwise, the import check
\* comes before the runtime check, and ok is true exactly when every command
\* that ran exited with code 0.
C27_EnabledChecks ==
    [][(pc = "check" /\ ~StructureFails(disk, venv) /\ NewEvent.res # "raised") =>
         LET log == devops'[ChecksLog(iteration)]
         IN  /\ Cardinality(ImportRuns(log)) = IF cfg.run_import_check THEN 1 ELSE 0
             /\ Cardinality(RuntimeRuns(log)) = IF cfg.run_uvicorn_check THEN 1 ELSE 0
             /\ \A i \in ImportRuns(log), j \in RuntimeRuns(log) : i < j
             /\ NewEvent.res = "ok" <=>
                  \A i \in ImportRuns(log) \cup RuntimeRuns(log) : log[i][2] = "exit0"
             /\ ~DefaultConfig.run_uvicorn_check /\ DefaultConfig.run_import_check]_vars

C27_Witness ==
    /\ LastIs("check", "fail")
    /\ cfg.run_import_check /\ cfg.run_uvicorn_check
    /\ devops[ChecksLog(iteration)] =
         <<ImportLine("exit1"), <<"=== Running backend startup check ===">>, RuntimeLine("exit0")>>



\* the lines of the block closed by the end marker at line j, and the last
\* end marker of a path
BlockBuf(t, j) == [h \in 1..(j - PrevMarker(t, j) - 1) |-> t[PrevMarker(t, j) + h].s]
LastEndOf(t, p) == CHOOSE j \in Ends(t) : t[j].p = p /\ \A h \in Ends(t) : t[h].p = p => h <= j

\* C28: a parsed bundle has one entry per path of the text; the content of
\* an entry is that of the last block of its path; paths that differ only in
\* letter case have entries of their own.
C28_LastBlockWins ==
    (Parsed /\ ~result.raised) =>
        /\ \A i, j \in 1..Len(bundle) : bundle[i].path = bundle[j].path => i = j
        /\ {bundle[i].path : i \in 1..Len(bundle)} = BlockPaths(parse_text)
        /\ \A i \in 1..Len(bundle) :
             bundle[i].content =
                Append(RStrip(JoinLines(BlockBuf(parse_text, LastEndOf(parse_text, bundle[i].path)))),
                       "\n")
        /\ ({PathLower, PathUpper} \subseteq BlockPaths(parse_text)) => Len(bundle) = 2

C28_Witness ==
    /\ Parsed
    /\ ~result.raised
    /\ parse_text = <<StartLine(PathLower), TextLine(<<"x">>), EndLine(PathLower),
                      StartLine(PathLower), EndLine(PathLower)>>
    /\ bundle = << [path |-> PathLower, content |-> <<"\n">>] >>



\* a line outside every block: a line that is no marker and has no start
\* marker as the nearest marker before it
Outside(t, j) ==
    t[j].k = "text" /\ (PrevMarker(t, j) = 0 \/ t[PrevMarker(t, j)].k = "end")
StripOutside(t) ==
    LET keep == {j \in 1..Len(t) : ~Outside(t, j)}
        nth(h) == CHOOSE j \in keep : Cardinality({i \in keep : i < j}) = h - 1
    IN  [h \in 1..Cardinality(keep) |-> t[nth(h)]]

\* C29: parse_file_bundle gives the same result for a text and for that text
\* with the lines outside blocks removed: the same bundle, or a failure of
\* the same kind.
C29_OutsideLinesIgnored ==
    Parsed =>
        LET r == parse_file_bundle(StripOutside(parse_text))
        IN  /\ r.ok = ~result.raised
            /\ r.err = result.err
            /\ r.files = bundle

C29_Witness ==
    /\ Parsed
    /\ ~result.raised
    /\ parse_text = <<TextLine(<<"x">>), StartLine(PathLower), TextLine(<<"x">>),
                      EndLine(PathLower), TextLine(<<"x">>)>>
    /\ StripOutside(parse_text) = <<StartLine(PathLower), TextLine(<<"x">>), EndLine(PathLower)>>
    /\ bundle = << [path |-> PathLower, content |-> <<"x", "\n">>] >>



\* the file that the i-th returned path names, and the last entry written
\* to the same file
WrittenFile(i) == Resolve(result.written[i], <<>>)
LastWriterOf(f) ==
    CHOOSE j \in 1..Len(result.written) :
        WrittenFile(j) = f /\ \A h \in 1..Len(result.written) : WrittenFile(h) = f => h <= j

\* C30: a call of write_file_bundle that returns gives one path per bundle
\* entry, in bundle order, each out_dir joined with the entry's normalized path;
\* the files on disk are exactly the files these paths name, and each holds
\* the content of the last entry written to it.
C30_WrittenPaths ==
    (result.op = "write" /\ ~result.raised) =>
        /\ Len(result.written) = Len(bundle)
        /\ \A i \in 1..Len(bundle) :
             result.written[i] = TargetOf(out_dir, bundle[i].path)
        /\ DOMAIN disk = {WrittenFile(i) : i \in 1..Len(bundle)}
        /\ \A i \in 1..Len(bundle) : disk[WrittenFile(i)] = bundle[LastWriterOf(WrittenFile(i))].content

C30_Witness ==
    /\ result.op = "write"
    /\ result.calls = 1
    /\ ~result.raised
    /\ Len(bundle) = 2
    /\ WrittenFile(1) = WrittenFile(2)
    /\ disk = (WrittenFile(1) :> ContentNo(2))



\* C31: the step that ends the loop (FAILED, or SUCCESS) and writes
\* status.txt changes no file of the backend tree, and the tree changes only
\* in a repair step whose bundle parsed: when the loop ends in FAILED the
\* tree is as the last applied bundle left it, or as it was at the start.
C31_NoRollback ==
    [][/\ pc' = "done" => disk' = disk
       /\ disk' # disk => (pc = "repair" /\ NewEvent.res = "parsed")]_vars

C31_Witness ==
    /\ pc = "done"
    /\ StatusReads(FailedText(cfg.max_iterations))
    /\ LastIs("status", "FAILED")
    /\ EventsWith("oracle", "parsed") # {}
    /\ disk = TreeOf({ReqFile, AppMain})



\* the records of the iterations: every artifact but status.txt
Records(dv) == {a \in DOMAIN dv : a.kind # "status"}
PatchKinds == {"patch_error", "patch_raw", "invalid_patch"}

\* C32: no step changes or removes a record that exists; a record that a
\* step creates carries the index of the running iteration; and the step that
\* writes install_<n>.log, checks_<n>.log or a patch artifact of iteration n
\* finds no file of that name, so each record is written at most once.
C32_RecordsImmutable ==
    [][/\ \A a \in Records(devops) : a \in DOMAIN devops' /\ devops'[a] = devops[a]
       /\ \A a \in Records(devops') \ Records(devops) : a.n = iteration /\ InLoopBody
       /\ pc = "install" => ~\E a \in Records(devops) : a.kind = "install" /\ a.n = iteration
       /\ pc = "check" => ~\E a \in Records(devops) : a.kind = "checks" /\ a.n = iteration
       /\ pc = "repair" => ~\E a \in Records(devops) : a.kind \in PatchKinds /\ a.n = iteration]_vars

C32_Witness ==
    /\ pc = "done"
    /\ iteration = 2
    /\ {a \in Records(devops) : a.n = 1} =
         {Art("install", "", 1), Art("checks", "", 1), Art("patch_raw", "checks", 1),
          Art("invalid_patch", "checks", 1)}
    /\ {a \in Records(devops) : a.n = 2} =
         {Art("install", "", 2), Art("patch_error", "install", 2)}



\* what the controller goes on with after a repair step: where run
\* continues, the names of the artifacts, and the backend tree
AfterRepairStep(r) == <<r.raised, DOMAIN r.devops, r.disk>>

\* C33: a repair step whose oracle call raised leaves the controller in the
\* same state, with the same artifact names and the same backend tree,
\* whichever exception it was: the step taken and the step with any other
\* exception in its place agree in all three, and the other variables of the
\* controller do not depend on the exception at all.
C33_CauseBlind ==
    [][(pc = "repair" /\ NewEvent.res = "call_failed") =>
         /\ \A e \in OracleExceptions :
              LET r == _attempt_repair(devops, disk, iteration, phase, OracleRaises(e))
              IN  AfterRepairStep(r) = <<pc' = "raised", DOMAIN devops', disk'>>
         /\ pc' = "loop"
         /\ <<cfg', iteration', phase', logs', venv'>> = <<cfg, iteration, phase, logs, venv>>
         /\ DOMAIN devops' = DOMAIN devops \cup {PatchError(phase, iteration)}]_vars

C33_Witness ==
    /\ pc = "loop"
    /\ Cardinality(EventsWith("oracle", "call_failed")) = 2
    /\ \E i, j \in EventsWith("oracle", "call_failed") : trace[i].out.exc # trace[j].out.exc
    /\ Cardinality(Arts("patch_error")) = 2



DocumentAbsent == ~upstream.spec \/ ~upstream.architecture \/ ~upstream.raw_backend
NothingRan == trace = <<>> /\ devops = <<>> /\ iteration = 0

\* C34: when a required upstream document (the spec, the architecture, the
\* raw backend generation) is absent, the controller raises before the first
\* iteration: no iteration starts, nothing is installed or checked, the
\* oracle is not called and no artifact is written.
C34_AbsentDocumentRaises ==
    DocumentAbsent => (NothingRan /\ pc \in {"new", "raised"})



\* C35: at most one child process of the controller runs at any moment, and
\* while one runs the only step is its exit with its output captured: no
\* command is started, no artifact is written, the oracle is not called and
\* no iteration starts.
C35_Sequential ==
    [][/\ Len(running) <= 1 /\ Len(running') <= 1
       /\ running # <<>> =>
            /\ running' = <<>>
            /\ \E code \in ExitCodes : captured' = Append(captured, <<running[1], code>>)
            /\ UNCHANGED <<pc, iteration, phase, logs, venv, disk, devops, trace>>]_vars

C35_Witness ==
    /\ pc = "check"
    /\ running = <<"runtime">>
    /\ captured = << <<"import", "exit1">> >>
    /\ iteration = 2



\* the instance that took the step recorded at position i of the trace
OwnerOf(i) ==
    LET s == {j \in 1..i : trace[j].ev = "switch"}
    IN  IF s = {} THEN 1 ELSE trace[CHOOSE j \in s : \A h \in s : h <= j].n
\* the steps that wrote status.txt, and what each wrote
StatusWrites ==
    {i \in 1..Len(trace) : trace[i].ev = "status" \/ (trace[i].ev = "check" /\ trace[i].res = "ok")}
LogWrites(ev, n) ==
    {i \in 1..Len(trace) : trace[i].ev = ev /\ trace[i].n = n /\ trace[i].res \in {"ok", "fail"}}

\* C36: with two instances on one project root nothing protects one
\* instance's artifacts from the other: status.txt always holds what the last
\* instance to write it wrote, whichever instance that is and whatever the
\* other one wrote before, and install_<n>.log and checks_<n>.log are one file
\* for both instances.
C36_NoExclusion ==
    /\ StatusWrites = {} <=> StatusFile \notin DOMAIN devops
    /\ \A i \in StatusWrites :
         (\A j \in StatusWrites : j <= i) =>
            StatusReads(IF trace[i].ev = "check" THEN SuccessText(trace[i].n)
                        ELSE IF OwnerOf(i) = who THEN FailedText(cfg.max_iterations)
                        ELSE FailedText(peer.cfg.max_iterations))
    /\ \A n \in 1..MaxIter + 1 :
         /\ InstallLog(n) \in DOMAIN devops <=> LogWrites("install", n) # {}
         /\ ChecksLog(n) \in DOMAIN devops <=> LogWrites("check", n) # {}

\* both instances ran interleaved, instance 1 wrote SUCCESS, and status.txt
\* reads FAILED, written by instance 2 over it; install_1.log was written twice
C36_Witness ==
    /\ pc = "done" /\ peer.pc = "done"
    /\ \E i, j \in StatusWrites :
         /\ i < j
         /\ OwnerOf(i) = 1 /\ trace[i].ev = "check"
         /\ OwnerOf(j) = 2 /\ trace[j].ev = "status"
         /\ \E h \in 1..Len(trace) : h < i /\ OwnerOf(h) = 2 /\ trace[h].ev = "install"
    /\ StatusReads(FailedText(1))
    /\ Cardinality(LogWrites("install", 1)) = 2



\* the configuration with the other value of reinstall_on_change
Flip(c) == [c EXCEPT !.reinstall_on_change = ~c.reinstall_on_change]

\* C37: every step of a run is the step that the run with the other value of
\* reinstall_on_change takes in the same state: the loop test, the delay, the
\* first step of the iteration, the final status and the checks come out the
\* same under both values, the install and repair steps do not read the
\* configuration, and no step changes it.
C37_FlagIgnored ==
    [][LET c2 == Flip(cfg)
       IN  /\ cfg' = cfg
           /\ pc = "loop" =>
                IF InRange(NextIndex(iteration), c2.max_iterations)
                THEN /\ iteration' = NextIndex(iteration)
                     /\ pc' = FirstStep(iteration', c2)
                     /\ Sleeps(iteration', c2) <=> NewEvent.ev = "sleep"
                ELSE /\ pc' = "done"
                     /\ devops' = WriteText(devops, StatusFile, StatusFailed(c2.max_iterations))
           /\ pc = "check" =>
                \A importOut, runOut \in CmdOutcomes :
                    _run_backend_checks(disk, venv, c2, importOut, runOut)
                        = _run_backend_checks(disk, venv, cfg, importOut, runOut)]_vars

\* a run with reinstall_on_change = FALSE installs again in its second iteration
C37_Witness ==
    /\ ~cfg.reinstall_on_change
    /\ iteration = 2
    /\ pc = "check"
    /\ Cardinality(Events("install")) = 2



\* the providers configured for the role of the request
Configured == Get(router.wiring, router.role)
FirstAnswering(chain) ==
    IF \E i \in 1..Len(chain) : chain[i] = "text"
    THEN CHOOSE i \in 1..Len(chain) : chain[i] = "text" /\ \A j \in 1..i - 1 : chain[j] # "text"
    ELSE 0

\* C38: LLMRouter.call calls the providers of the request's role in list
\* order; when it returns, it returns the text of the first provider of the
\* list that does not raise and has called no provider after it; it raises
\* RuntimeError only when no provider is configured for the role, calling none,
\* or when every provider was called and raised.
C38_FirstAnswer ==
    /\ \A i \in 1..Len(router.called) : router.called[i] = i
    /\ Len(router.called) <= Len(Configured)
    /\ router.state = "returned" =>
         /\ FirstAnswering(Configured) # 0
         /\ Len(router.called) = FirstAnswering(Configured)
         /\ router.result = ChatText(FirstAnswering(Configured))
    /\ router.state = "raised" =>
         /\ FirstAnswering(Configured) = 0
         /\ Len(router.called) = Len(Configured)

\* the first provider raised, the second answered and the call returned its text
C38_Witness ==
    /\ router.state = "returned"
    /\ Configured = <<"exception", "text">>
    /\ router.called = <<1, 2>>
    /\ router.result = ChatText(2)



\* C39: generate_robust_code returns only the code that the sandbox check
\* just accepted; it calls the debugger at most 3 times; it raises
\* RuntimeError after 3 checks that each reported a syntax error and 3
\* debugger calls; the codes checked are the fragment's code and the first and
\* second fix, so the third fix is never checked.
C39_RobustCode ==
    /\ coder.debugs <= 3
    /\ \A i \in 1..Len(coder.checked) : coder.checked[i].src = i - 1 /\ coder.checked[i].src # 3
    /\ coder.state = "returned" =>
         /\ coder.result.kind = "valid"
         /\ coder.result = coder.checked[Len(coder.checked)]
    /\ coder.state = "failed" =>
         /\ Len(coder.checked) = 3
         /\ \A i \in 1..3 : coder.checked[i].kind = "invalid"
         /\ coder.debugs = 3
         /\ coder.code.src = 3

\* the third fix is valid code and the call raised RuntimeError all the same
C39_Witness ==
    /\ coder.state = "failed"
    /\ coder.code = Code(3, "valid")



\* C40: with max_iterations = 0 the only step of run is the one that writes
\* "FAILED after 0 iterations" to status.txt and returns: no iteration starts,
\* the venv and the backend tree stay as they were, status.txt is the only
\* artifact, so no install or check log exists, and the oracle is not called.
C40_ZeroIterations ==
    [][cfg.max_iterations = 0 =>
         /\ pc = "loop" /\ pc' = "done"
         /\ iteration' = 0
         /\ venv' = venv /\ disk' = disk
         /\ DOMAIN devops' = {StatusFile}
         /\ devops'[StatusFile] = FailedText(0)
         /\ \A i \in 1..Len(trace') : trace'[i].ev = "status"]_vars

C40_Witness ==
    /\ cfg.max_iterations = 0
    /\ pc = "done"
    /\ venv = "absent"
    /\ StatusReads(FailedText(0))
    /\ Events("iteration") = {} /\ Events("oracle") = {}

====
